---- MODULE Spec2Model ----
(***************************************************************************)
(* A model of the CSV -> documents -> Postgres importer of src/index.js:   *)
(* the tokenizer/parser (parseCSVText, readLineAsFields), the record       *)
(* mapper (mapRecordToDb, setNested), the batch loader and the age report  *)
(* (importCsvFile, insertBatch, printAgeDistribution).                     *)
(*                                                                         *)
(* A JavaScript string is a sequence of one-character strings; indices in  *)
(* the tokenizer are 0-based as in the code, so character i of the code is *)
(* t[i + 1] here.                                                          *)
(***************************************************************************)
EXTENDS Integers, Sequences, FiniteSets, TLC

VARIABLES
  text,      \* the content of the input file (fs.readFileSync)
  tok,       \* readLineAsFields' locals and the shared cursor: i, cur, inQuotes, fields, brk
  par,       \* parseCSVText's position and locals: pc, headers, rows
  rec,       \* the flat record handed to mapRecordToDb (mapper specification)
  doc,       \* what mapRecordToDb produced for rec: a Document or a thrown error
  batchSize, \* BATCH_SIZE
  pc,        \* importCsvFile's position: the next statement it runs
  records,   \* importCsvFile: records
  idx,       \* importCsvFile: the loop index i
  batch,     \* importCsvFile: batch
  inserted,  \* importCsvFile: inserted
  err,       \* the error caught by the catch block, if any
  log,       \* the lines written to the console, in order
  client,    \* the operations issued on the acquired client, in order
  db,        \* the store: the client's transaction and the rows of public.users
  total,     \* printAgeDistribution: total
  outcome    \* the promise of importCsvFile: pending, resolved or rejected

vars == <<text, tok, par, rec, doc, batchSize, pc, records, idx, batch,
          inserted, err, log, client, db, total, outcome>>

----------------------------------------------------------------------------
(* Bounds of the model *)

\* the longest text of the parser specification
MaxLen == 5
\* the most data lines of a file of the import specification
MaxRows == 3
\* the largest BATCH_SIZE
MaxBatch == 2
\* the longest age text of the mapper specification
MaxAgeLen == 3
\* the most optional keys of a record of the keys specification
MaxKeys == 2
\* the most rows of a table of the report specification
MaxTable == 3

----------------------------------------------------------------------------
(* Characters and strings *)

COMMA == ","
QUOTE == "\""
LF == "\n"
CR == "\r"
DOT == "."
\* U+FEFF, the byte order mark
BOM == "BOM"

\* the characters String.prototype.trim removes, among those of the model
WhiteSpace == {" ", "\t", LF, CR, BOM}

RECURSIVE TrimLeft(_)
TrimLeft(s) ==
  IF Len(s) > 0 /\ s[1] \in WhiteSpace THEN TrimLeft(Tail(s)) ELSE s

RECURSIVE TrimRight(_)
TrimRight(s) ==
  IF Len(s) > 0 /\ s[Len(s)] \in WhiteSpace
  THEN TrimRight(SubSeq(s, 1, Len(s) - 1))
  ELSE s

\* s.trim()
trim(s) == TrimRight(TrimLeft(s))

----------------------------------------------------------------------------
(* The tokenizer: readLineAsFields *)

\* the locals of a fresh call of readLineAsFields with the cursor at i0
TokInit(i0) ==
  [i |-> i0, cur |-> <<>>, inQuotes |-> FALSE, fields |-> <<>>, brk |-> FALSE]

\* (mutant) a comma ends the field inside quotes too
ReadIterQuoteBlind(t, s) ==
  LET ch == t[s.i + 1] IN
  IF ch = QUOTE THEN
    IF s.inQuotes /\ s.i + 1 < Len(t) /\ t[s.i + 2] = QUOTE
    THEN [s EXCEPT !.cur = Append(@, QUOTE), !.i = @ + 2]
    ELSE [s EXCEPT !.inQuotes = ~@, !.i = @ + 1]
  ELSE IF ch = COMMA THEN
    [s EXCEPT !.fields = Append(@, s.cur), !.cur = <<>>, !.i = @ + 1]
  ELSE IF ~s.inQuotes /\ ch \in {LF, CR} THEN
    [s EXCEPT !.fields = Append(@, s.cur), !.cur = <<>>,
              !.i = IF ch = CR /\ s.i + 1 < Len(t) /\ t[s.i + 2] = LF
                    THEN @ + 2 ELSE @ + 1,
              !.brk = TRUE]
  ELSE [s EXCEPT !.cur = Append(@, ch), !.i = @ + 1]

\* (mutant) a \r that no \n follows ends the line and is not consumed
ReadIterLoneCrStuck(t, s) ==
  LET ch == t[s.i + 1] IN
  IF ch = QUOTE THEN
    IF s.inQuotes /\ s.i + 1 < Len(t) /\ t[s.i + 2] = QUOTE
    THEN [s EXCEPT !.cur = Append(@, QUOTE), !.i = @ + 2]
    ELSE [s EXCEPT !.inQuotes = ~@, !.i = @ + 1]
  ELSE IF ~s.inQuotes /\ ch = COMMA THEN
    [s EXCEPT !.fields = Append(@, s.cur), !.cur = <<>>, !.i = @ + 1]
  ELSE IF ~s.inQuotes /\ ch \in {LF, CR} THEN
    [s EXCEPT !.fields = Append(@, s.cur), !.cur = <<>>,
              !.i = IF ch = CR /\ s.i + 1 < Len(t) /\ t[s.i + 2] = LF
                    THEN @ + 2 ELSE IF ch = CR THEN @ ELSE @ + 1,
              !.brk = TRUE]
  ELSE [s EXCEPT !.cur = Append(@, ch), !.i = @ + 1]

\* one iteration of the while loop, entered with s.i < Len(t)
ReadIter(t, s) ==
  LET ch == t[s.i + 1] IN
  IF ch = QUOTE THEN
    IF s.inQuotes /\ s.i + 1 < Len(t) /\ t[s.i + 2] = QUOTE
    THEN [s EXCEPT !.cur = Append(@, QUOTE), !.i = @ + 2]
    ELSE [s EXCEPT !.inQuotes = ~@, !.i = @ + 1]
  ELSE IF ~s.inQuotes /\ ch = COMMA THEN
    [s EXCEPT !.fields = Append(@, s.cur), !.cur = <<>>, !.i = @ + 1]
  ELSE IF ~s.inQuotes /\ ch \in {LF, CR} THEN
    [s EXCEPT !.fields = Append(@, s.cur), !.cur = <<>>,
              !.i = IF ch = CR /\ s.i + 1 < Len(t) /\ t[s.i + 2] = LF
                    THEN @ + 2 ELSE @ + 1,
              !.brk = TRUE]
  ELSE [s EXCEPT !.cur = Append(@, ch), !.i = @ + 1]

\* the while loop runs while i < len and no break was taken
ReadRunning(t, s) == s.i < Len(t) /\ ~s.brk

RECURSIVE ReadLoop(_, _)
ReadLoop(t, s) == IF ReadRunning(t, s) THEN ReadLoop(t, ReadIter(t, s)) ELSE s

\* after the loop: at the end of the input the pending field is pushed
ReadTail(t, s) ==
  IF s.i >= Len(t) /\ (s.cur # <<>> \/ Len(s.fields) > 0)
  THEN [s EXCEPT !.fields = Append(@, s.cur)]
  ELSE s

\* readLineAsFields() called with the cursor at i0: the fields and the new cursor
readLineAsFields(t, i0) == ReadTail(t, ReadLoop(t, TokInit(i0)))

----------------------------------------------------------------------------
(* The parser: parseCSVText *)

\* a flat record is the sequence of its [k, v] entries in insertion order
\* (Object.entries order; no key of the model is an array index)
HasKey(r, key) == \E n \in 1..Len(r) : r[n].k = key

\* rec[key] for a key the record holds
Get(r, key) == r[CHOOSE n \in 1..Len(r) : r[n].k = key].v

\* rec[key] = value: a key already there keeps its place and takes the value
SetKey(r, key, value) ==
  IF HasKey(r, key)
  THEN [n \in 1..Len(r) |-> IF r[n].k = key THEN [k |-> key, v |-> value] ELSE r[n]]
  ELSE Append(r, [k |-> key, v |-> value])

\* the cursor after the optional byte order mark
StartIndex(t) == IF Len(t) > 0 /\ t[1] = BOM THEN 1 ELSE 0

\* headerFields.map(h => h.trim())
TrimAll(fs) == [n \in 1..Len(fs) |-> trim(fs[n])]

\* while (fields.length < headers.length) fields.push('')
RECURSIVE PadFields(_, _)
PadFields(fs, n) == IF Len(fs) < n THEN PadFields(Append(fs, <<>>), n) ELSE fs

\* the property name every object inherits as an accessor from Object.prototype
ProtoKey == <<"_", "_", "p", "r", "o", "t", "o", "_", "_">>

\* the record of one data line: rec[headers[k]] = fields[k].trim(), k ascending;
\* the inherited accessor rec['__proto__'] ignores the string assigned to it
RECURSIVE FillRec(_, _, _, _)
FillRec(r, headers, fs, k) ==
  IF k > Len(headers) THEN r
  ELSE FillRec(IF headers[k] = ProtoKey THEN r ELSE SetKey(r, headers[k], trim(fs[k])),
               headers, fs, k + 1)

MakeRec(headers, fs) == FillRec(<<>>, headers, PadFields(fs, Len(headers)), 1)

\* the phantom-row test: a single empty field read up to the end of input
IsPhantom(t, s) == Len(s.fields) = 1 /\ s.fields[1] = <<>> /\ s.i >= Len(t)

\* the loop over the data lines, from cursor i with the rows collected so far
RECURSIVE ParseRows(_, _, _, _)
ParseRows(t, headers, i, rows) ==
  IF i < Len(t)
  THEN LET s == readLineAsFields(t, i) IN
       IF IsPhantom(t, s) THEN rows
       ELSE ParseRows(t, headers, s.i, Append(rows, MakeRec(headers, s.fields)))
  ELSE rows

\* parseCSVText(text): the rows, or the thrown 'No headers found in CSV'
parseCSVText(t) ==
  LET h == readLineAsFields(t, StartIndex(t)) IN
  IF Len(h.fields) = 0
  THEN [threw |-> TRUE, rows |-> <<>>]
  ELSE [threw |-> FALSE, rows |-> ParseRows(t, TrimAll(h.fields), h.i, <<>>)]

----------------------------------------------------------------------------
(* The mapper: setNested and mapRecordToDb *)

KeyFirstName == <<"n", "a", "m", "e", ".", "f", "i", "r", "s", "t", "N", "a", "m", "e">>
KeyLastName == <<"n", "a", "m", "e", ".", "l", "a", "s", "t", "N", "a", "m", "e">>
KeyAge == <<"a", "g", "e">>
AddressPrefix == <<"a", "d", "d", "r", "e", "s", "s", ".">>

\* a nested value: a string, an object (its entries in insertion order) or null
Scalar(s) == [tag |-> "s", val |-> s, ent |-> <<>>]
Obj(entries) == [tag |-> "o", val |-> <<>>, ent |-> entries]
NULL == [tag |-> "null", val |-> <<>>, ent |-> <<>>]

\* path.split('.'): acc is the part being read
RECURSIVE SplitFrom(_, _)
SplitFrom(s, acc) ==
  IF s = <<>> THEN <<acc>>
  ELSE IF s[1] = DOT THEN <<acc>> \o SplitFrom(Tail(s), <<>>)
  ELSE SplitFrom(Tail(s), Append(acc, s[1]))

Split(s) == SplitFrom(s, <<>>)

\* the loop of setNested from part n on, on the entries (own properties) of cur.
\* cur['__proto__'] is the inherited accessor: assigned a string as the last part
\* it does nothing; as an intermediate part it is `in cur` and an object, so cur
\* becomes Object.prototype and the remaining parts are written there. Either
\* way cur gets no own property. The prototype itself is not carried: the
\* records of the model hold no key that passes through a part which an earlier
\* key has set to an object on the prototype.
RECURSIVE SetAt(_, _, _, _)
SetAt(entries, parts, n, value) ==
  LET p == parts[n] IN
  IF p = ProtoKey THEN entries
  ELSE IF n = Len(parts) THEN SetKey(entries, p, Scalar(value))
  ELSE LET child == IF HasKey(entries, p) /\ Get(entries, p).tag = "o"
                    THEN Get(entries, p).ent
                    ELSE <<>>
       IN SetKey(entries, p, Obj(SetAt(child, parts, n + 1, value)))

\* setNested(obj, path, value), on the entries of obj
setNested(entries, path, value) == SetAt(entries, Split(path), 1, value)

\* rec[key] || ''
Lookup(r, key) == IF HasKey(r, key) THEN Get(r, key) ELSE <<>>

Digits == {"0", "1", "2", "3", "4", "5", "6", "7", "8", "9"}

DigitVal(c) ==
  CASE c = "0" -> 0 [] c = "1" -> 1 [] c = "2" -> 2 [] c = "3" -> 3
    [] c = "4" -> 4 [] c = "5" -> 5 [] c = "6" -> 6 [] c = "7" -> 7
    [] c = "8" -> 8 [] c = "9" -> 9

\* the longest prefix of s made of decimal digits
RECURSIVE DigitPrefix(_)
DigitPrefix(s) ==
  IF Len(s) > 0 /\ s[1] \in Digits THEN <<s[1]>> \o DigitPrefix(Tail(s)) ELSE <<>>

RECURSIVE DecValue(_, _)
DecValue(ds, acc) ==
  IF ds = <<>> THEN acc ELSE DecValue(Tail(ds), 10 * acc + DigitVal(ds[1]))

\* parseInt(s, 10): leading white space is skipped, then an optional sign, then
\* the longest run of digits is read and whatever follows is ignored; NaN when
\* there is no digit
parseInt(s) ==
  LET t == TrimLeft(s)
      signed == Len(t) > 0 /\ t[1] \in {"+", "-"}
      ds == DigitPrefix(IF signed THEN Tail(t) ELSE t)
  IN IF ds = <<>> THEN [nan |-> TRUE, n |-> 0]
     ELSE [nan |-> FALSE,
           n |-> IF signed /\ t[1] = "-" THEN 0 - DecValue(ds, 0) ELSE DecValue(ds, 0)]

\* k.startsWith('address.')
StartsWithAddress(k) ==
  Len(k) >= Len(AddressPrefix) /\ SubSeq(k, 1, Len(AddressPrefix)) = AddressPrefix

\* the loop over Object.entries(rec) from entry n on: the two builders
RECURSIVE Builders(_, _, _, _)
Builders(r, n, address, additional) ==
  IF n > Len(r) THEN [address |-> address, additional |-> additional]
  ELSE LET k == r[n].k
           v == r[n].v
       IN IF k = KeyFirstName \/ k = KeyLastName \/ k = KeyAge
          THEN Builders(r, n + 1, address, additional)
          ELSE IF StartsWithAddress(k)
          THEN Builders(r, n + 1,
                       setNested(address, SubSeq(k, Len(AddressPrefix) + 1, Len(k)), v),
                       additional)
          ELSE Builders(r, n + 1, address, setNested(additional, k, v))

\* the Document of a mapping that threw
NoDoc == [name |-> <<>>, age |-> 0, address |-> NULL, additional_info |-> NULL]

\* (mutant) the last name is not tested
MandatoryMissingNoLastName(firstName, lastName, ageRaw) ==
  firstName = <<>> \/ ageRaw = <<>>

\* the mandatory-field test
MandatoryMissing(firstName, lastName, ageRaw) ==
  firstName = <<>> \/ lastName = <<>> \/ ageRaw = <<>>

\* the age test
AgeRejected(ageRaw) == parseInt(ageRaw).nan

\* mapRecordToDb(rec): the Document, or the error thrown
mapRecordToDb(r) ==
  LET firstName == trim(Lookup(r, KeyFirstName))
      lastName == trim(Lookup(r, KeyLastName))
      ageRaw == trim(Lookup(r, KeyAge))
      b == Builders(r, 1, <<>>, <<>>)
  IN IF MandatoryMissing(firstName, lastName, ageRaw)
     THEN [threw |-> TRUE, msg |-> "Mandatory fields missing", doc |-> NoDoc]
     ELSE IF AgeRejected(ageRaw)
     THEN [threw |-> TRUE, msg |-> "Invalid age value", doc |-> NoDoc]
     ELSE [threw |-> FALSE, msg |-> "",
           doc |-> [name |-> firstName \o <<" ">> \o lastName,
                    age |-> parseInt(ageRaw).n,
                    address |-> IF Len(b.address) > 0 THEN Obj(b.address) ELSE NULL,
                    additional_info |->
                      IF Len(b.additional) > 0 THEN Obj(b.additional) ELSE NULL]]

----------------------------------------------------------------------------
(* The parser, one loop iteration at a time *)

\* the idle values of the variables a specification does not use
IdleTok == TokInit(0)
IdlePar == [pc |-> "idle", headers |-> <<>>, rows |-> <<>>]
IdleDoc == [threw |-> FALSE, msg |-> "idle", doc |-> NoDoc]
IdleDb == [txn |-> "none", pending |-> <<>>, rows |-> <<>>, prior |-> <<>>]

\* what the parser leaves alone
ParseUnchanged ==
  UNCHANGED <<text, rec, doc, batchSize, pc, records, idx, batch, inserted,
              err, log, client, db, total, outcome>>

\* parseCSVText is entered: the byte order mark is skipped, the header call starts
PStart ==
  /\ par.pc = "start"
  /\ tok' = TokInit(StartIndex(text))
  /\ par' = [par EXCEPT !.pc = "header"]
  /\ ParseUnchanged

\* one iteration of readLineAsFields' while loop
PIter ==
  /\ par.pc \in {"header", "row"}
  /\ ReadRunning(text, tok)
  /\ tok' = ReadIter(text, tok)
  /\ par' = par
  /\ ParseUnchanged

\* readLineAsFields leaves its loop and returns
PReturn ==
  /\ par.pc \in {"header", "row"}
  /\ ~ReadRunning(text, tok)
  /\ tok' = ReadTail(text, tok)
  /\ par' = [par EXCEPT !.pc = IF par.pc = "header" THEN "headerRead" ELSE "rowRead"]
  /\ ParseUnchanged

\* the test of the while loop over the data lines, with the cursor at i
RowsLoop(i) == IF i < Len(text) THEN "row" ELSE "done"

\* the header fields are back: throw, or trim them and enter the loop
PHeader ==
  /\ par.pc = "headerRead"
  /\ IF Len(tok.fields) = 0
     THEN /\ par' = [par EXCEPT !.pc = "threw"]
          /\ tok' = tok
     ELSE /\ par' = [par EXCEPT !.pc = RowsLoop(tok.i), !.headers = TrimAll(tok.fields)]
          /\ tok' = IF RowsLoop(tok.i) = "row" THEN TokInit(tok.i) ELSE tok
  /\ ParseUnchanged

\* the fields of a data line are back: break on the phantom row, or store the record
PRow ==
  /\ par.pc = "rowRead"
  /\ IF IsPhantom(text, tok)
     THEN /\ par' = [par EXCEPT !.pc = "done"]
          /\ tok' = tok
     ELSE /\ par' = [par EXCEPT !.pc = RowsLoop(tok.i),
                                !.rows = Append(@, MakeRec(par.headers, tok.fields))]
          /\ tok' = IF RowsLoop(tok.i) = "row" THEN TokInit(tok.i) ELSE tok
  /\ ParseUnchanged

\* the characters of the parser specification's texts
Chars == {"a", " ", COMMA, QUOTE, LF, CR}

\* every text of at most n characters
RECURSIVE TextsUpTo(_)
TextsUpTo(n) ==
  IF n = 0 THEN {<<>>}
  ELSE LET shorter == TextsUpTo(n - 1) IN
       shorter \cup {Append(t, c) : t \in {u \in shorter : Len(u) = n - 1}, c \in Chars}

\* a,"b""c",d
QuotedLine == <<"a", COMMA, QUOTE, "b", QUOTE, QUOTE, "c", QUOTE, COMMA, "d">>
\* h,k then a line whose first field is quoted and holds a line break
QuotedBreak == <<"h", COMMA, "k", LF, QUOTE, "a", LF, "a", QUOTE, COMMA, "a">>

\* a file with a column named __proto__ and one data line
ProtoColumn == <<"a", COMMA>> \o ProtoKey \o <<LF, "a", COMMA, "a">>
\* a file with the column a twice and one data line
TwiceColumn == <<"a", COMMA, "a", LF, "a", COMMA, " ">>

\* the texts of at most n characters, with and without a leading byte order
\* mark, and the longer example files
ParseTexts(n) ==
  TextsUpTo(n) \cup {<<BOM>> \o t : t \in TextsUpTo(n - 1)}
    \cup {QuotedLine, QuotedBreak, ProtoColumn, TwiceColumn}

InitParse ==
  /\ text \in ParseTexts(MaxLen)
  /\ tok = IdleTok
  /\ par = [pc |-> "start", headers |-> <<>>, rows |-> <<>>]
  /\ rec = <<>>
  /\ doc = IdleDoc
  /\ batchSize = 1
  /\ pc = "idle"
  /\ records = <<>>
  /\ idx = 0
  /\ batch = <<>>
  /\ inserted = 0
  /\ err = "none"
  /\ log = <<>>
  /\ client = <<>>
  /\ db = IdleDb
  /\ total = 0
  /\ outcome = "pending"

NextParse ==
  \/ PStart
  \/ PIter
  \/ PReturn
  \/ PHeader
  \/ PRow

SpecParse == InitParse /\ [][NextParse]_vars

\* the loop iterations compute what parseCSVText computes
ParseAgrees ==
  /\ par.pc = "done" => parseCSVText(text) = [threw |-> FALSE, rows |-> par.rows]
  /\ par.pc = "threw" => parseCSVText(text).threw

----------------------------------------------------------------------------
(* The mapper applied to one record *)

KeyCity == <<"a", "d", "d", "r", "e", "s", "s", ".", "c", "i", "t", "y">>
KeyOther == <<"x">>

\* marks a key the record does not hold
ABSENT == <<"absent">>

NameTexts == {ABSENT, <<>>, <<" ">>, <<"A">>, <<" ", "A", " ">>}
OptionTexts == {ABSENT, <<>>, <<"X">>}
AgeChars == {"1", "a", DOT, " ", "-"}

RECURSIVE AgeTextsUpTo(_)
AgeTextsUpTo(n) ==
  IF n = 0 THEN {<<>>}
  ELSE LET shorter == AgeTextsUpTo(n - 1) IN
       shorter \cup {Append(t, c) : t \in {u \in shorter : Len(u) = n - 1}, c \in AgeChars}

AgeTexts(n) == {ABSENT} \cup AgeTextsUpTo(n)

\* the record with the given values, a key marked ABSENT left out
Entry(key, value) == IF value = ABSENT THEN <<>> ELSE <<[k |-> key, v |-> value]>>

RecOf(first, last, age, city, other) ==
  Entry(KeyFirstName, first) \o Entry(KeyLastName, last) \o Entry(KeyAge, age)
    \o Entry(KeyCity, city) \o Entry(KeyOther, other)

\* the records handed to the mapper, their age text of at most n characters
MapRecs(n) ==
  {RecOf(f, l, a, c, o) : f \in NameTexts, l \in {ABSENT, <<>>, <<"B">>},
                          a \in AgeTexts(n), c \in OptionTexts, o \in {ABSENT, <<"y">>}}

\* mapRecordToDb is applied to rec
MapRecord ==
  /\ doc.msg = "idle"
  /\ doc' = mapRecordToDb(rec)
  /\ UNCHANGED <<text, tok, par, rec, batchSize, pc, records, idx, batch, inserted,
                 err, log, client, db, total, outcome>>

InitMap ==
  /\ rec \in MapRecs(MaxAgeLen)
  /\ doc = IdleDoc
  /\ text = <<>>
  /\ tok = IdleTok
  /\ par = IdlePar
  /\ batchSize = 1
  /\ pc = "idle"
  /\ records = <<>>
  /\ idx = 0
  /\ batch = <<>>
  /\ inserted = 0
  /\ err = "none"
  /\ log = <<>>
  /\ client = <<>>
  /\ db = IdleDb
  /\ total = 0
  /\ outcome = "pending"

NextMap == MapRecord

SpecMap == InitMap /\ [][NextMap]_vars

----------------------------------------------------------------------------
(* The mapper applied to records with optional keys of every shape *)

KeyA == <<"a">>
KeyAB == <<"a", DOT, "b">>
KeyAddressA == AddressPrefix \o KeyA
KeyAddressAB == AddressPrefix \o KeyAB
KeyAddressBare == <<"a", "d", "d", "r", "e", "s", "s">>
KeyAddressProto == AddressPrefix \o ProtoKey
KeyProtoZ == ProtoKey \o <<DOT, "z">>
KeyEmpty == <<>>

\* the optional header names: nested and flat, colliding in both orders, the
\* bare prefix 'address.', the name 'address' without a dot, the empty name
ExtraKeys ==
  {KeyA, KeyAB, KeyAddressA, KeyAddressAB, AddressPrefix, KeyAddressBare,
   KeyAddressProto, KeyProtoZ, KeyEmpty}

ExtraVals == {<<>>, <<"v">>}

\* the sequences of at most n entries with distinct keys
RECURSIVE ExtraEntries(_)
ExtraEntries(n) ==
  IF n = 0 THEN {<<>>}
  ELSE LET shorter == ExtraEntries(n - 1) IN
       shorter \cup
       {Append(es, [k |-> key, v |-> val]) :
          es \in {e \in shorter : Len(e) = n - 1},
          key \in ExtraKeys, val \in ExtraVals}

DistinctKeys(es) == \A m, n \in 1..Len(es) : es[m].k = es[n].k => m = n

\* the records of a file whose mandatory columns are filled and valid
KeyRecs(n) ==
  {RecOf(<<"A">>, <<"B">>, <<"3", "0">>, ABSENT, ABSENT) \o es :
     es \in {e \in ExtraEntries(n) : DistinctKeys(e)}}

InitKeys ==
  /\ rec \in KeyRecs(MaxKeys)
  /\ doc = IdleDoc
  /\ text = <<>>
  /\ tok = IdleTok
  /\ par = IdlePar
  /\ batchSize = 1
  /\ pc = "idle"
  /\ records = <<>>
  /\ idx = 0
  /\ batch = <<>>
  /\ inserted = 0
  /\ err = "none"
  /\ log = <<>>
  /\ client = <<>>
  /\ db = IdleDb
  /\ total = 0
  /\ outcome = "pending"

SpecKeys == InitKeys /\ [][NextMap]_vars

----------------------------------------------------------------------------
(* The report: printAgeDistribution *)

\* the rows a query on the client sees: the committed rows and, inside its own
\* open transaction, the rows it inserted
Visible(d) == IF d.txn = "open" THEN d.rows \o d.pending ELSE d.rows

\* the CASE WHEN conditions of the bucket query
InLt20(age) == age < 20
\* (mutant) the second bucket starts above 20
InBtw20_40Open(age) == age > 20 /\ age <= 40

InBtw20_40(age) == age >= 20 /\ age <= 40
InBtw40_60(age) == age > 40 /\ age <= 60
InGt60(age) == age > 60

\* SUM(CASE WHEN ... THEN 1 ELSE 0 END) over the rows, per column
lt20(rows) == Cardinality({n \in 1..Len(rows) : InLt20(rows[n].age)})
btw20_40(rows) == Cardinality({n \in 1..Len(rows) : InBtw20_40(rows[n].age)})
btw40_60(rows) == Cardinality({n \in 1..Len(rows) : InBtw40_60(rows[n].age)})
gt60(rows) == Cardinality({n \in 1..Len(rows) : InGt60(rows[n].age)})

\* The arithmetic of pct is that of JavaScript numbers, binary64 floating point.
\* A positive number is a record [m, e]: m its significand, SignificandBits bits
\* with the most significant first and equal to 1, e the exponent of that bit.
\* Integers of the model are kept small by working on limbs of LimbBits bits.
SignificandBits == 53
LimbBits == (SignificandBits - 1) \div 4

RECURSIVE Pow2(_)
Pow2(s) == IF s = 0 THEN 1 ELSE 2 * Pow2(s - 1)

LimbBase == Pow2(LimbBits)

\* the w binary digits of v < 2^w
BitsW(v, w) == [j \in 1..w |-> (v \div Pow2(w - j)) % 2]

\* the natural number the bits spell
RECURSIVE NatOf(_)
NatOf(b) == IF b = <<>> THEN 0 ELSE 2 * NatOf(SubSeq(b, 1, Len(b) - 1)) + b[Len(b)]

\* the bits limb by limb, their number a multiple of LimbBits
RECURSIVE LimbsOf(_)
LimbsOf(b) ==
  IF b = <<>> THEN <<>>
  ELSE <<NatOf(SubSeq(b, 1, LimbBits))>> \o LimbsOf(SubSeq(b, LimbBits + 1, Len(b)))

RECURSIVE BitsOfLimbs(_)
BitsOfLimbs(ls) ==
  IF ls = <<>> THEN <<>> ELSE BitsW(ls[1], LimbBits) \o BitsOfLimbs(Tail(ls))

\* the next count limbs of the binary expansion of r / tot, for 0 <= r < tot
RECURSIVE DivLimbs(_, _, _)
DivLimbs(r, tot, count) ==
  IF count = 0 THEN <<>>
  ELSE <<(r * LimbBase) \div tot>> \o DivLimbs((r * LimbBase) % tot, tot, count - 1)

\* the remainder left once those limbs are taken
RECURSIVE DivRem(_, _, _)
DivRem(r, tot, count) ==
  IF count = 0 THEN r ELSE DivRem((r * LimbBase) % tot, tot, count - 1)

\* the s with tot <= n * 2^s < 2 * tot, for 0 < n <= tot
RECURSIVE NormShift(_, _)
NormShift(n, tot) == IF n >= tot THEN 0 ELSE 1 + NormShift(2 * n, tot)

\* the bits plus one, for bits that are not all 1
Inc(b) ==
  LET z == CHOOSE j \in 1..Len(b) : b[j] = 0 /\ \A i \in (j + 1)..Len(b) : b[i] = 1
  IN [j \in 1..Len(b) |-> IF j < z THEN b[j] ELSE IF j = z THEN 1 ELSE 0]

\* the next number up from [m, e]
NextUp(m, e) ==
  IF \A j \in 1..Len(m) : m[j] = 1
  THEN [m |-> <<1>> \o [j \in 1..(Len(m) - 1) |-> 0], e |-> e + 1]
  ELSE [m |-> Inc(m), e |-> e]

\* round to nearest, a tie to the even significand: up says the dropped part is
\* above a half, tie that it is exactly a half
RoundNearestEven(m, e, up, tie) ==
  IF up \/ (tie /\ m[Len(m)] = 1) THEN NextUp(m, e) ELSE [m |-> m, e |-> e]

\* n / tot for integers 0 < n <= tot (a bucket count and the total)
FloatDiv(n, tot) ==
  LET s == NormShift(n, tot)
      r == n * Pow2(s) - tot
      m == <<1>> \o BitsOfLimbs(DivLimbs(r, tot, 4))
      rest == DivRem(r, tot, 4)
  IN RoundNearestEven(m, 0 - s, 2 * rest > tot, 2 * rest = tot)

\* the limbs times the small number k, from the last limb on with the carry
RECURSIVE MulLimbs(_, _, _)
MulLimbs(ls, k, carry) ==
  IF ls = <<>> THEN <<carry>>
  ELSE LET v == ls[Len(ls)] * k + carry
       IN Append(MulLimbs(SubSeq(ls, 1, Len(ls) - 1), k, v \div LimbBase), v % LimbBase)

\* the bits from the first 1 on
StripZeros(b) ==
  LET f == CHOOSE j \in 1..Len(b) : b[j] = 1 /\ \A i \in 1..(j - 1) : b[i] = 0
  IN SubSeq(b, f, Len(b))

\* x * 100 for a number x
FloatMul100(x) ==
  LET padded == [j \in 1..(LimbBits - 1) |-> 0] \o x.m
      prod == StripZeros(BitsOfLimbs(MulLimbs(LimbsOf(padded), 100, 0)))
      m == SubSeq(prod, 1, SignificandBits)
      rest == SubSeq(prod, SignificandBits + 1, Len(prod))
      sticky == \E j \in 2..Len(rest) : rest[j] = 1
  IN RoundNearestEven(m, x.e + (Len(prod) - SignificandBits),
                      rest[1] = 1 /\ sticky, rest[1] = 1 /\ ~sticky)

\* Math.round(x) for a number 0 < x < 2^LimbBits: floor(x + 0.5), so the integer
\* part, plus one when the bit worth a half is set
MathRound(x) ==
  IF x.e < 0 - 1 THEN 0
  ELSE NatOf(SubSeq(x.m, 1, x.e + 1)) + x.m[x.e + 2]

\* n => (total === 0 ? 0 : Math.round((n / total) * 100)); 0 / total is 0
pct(n, tot) ==
  IF tot = 0 \/ n = 0 THEN 0 ELSE MathRound(FloatMul100(FloatDiv(n, tot)))

Line(kind, n, msg) == [kind |-> kind, n |-> n, msg |-> msg]

\* the lines printed after the bucket query
ReportLines(rows, tot) ==
  << Line("title", 0, "Age-Group % Distribution"),
     Line("pct", pct(lt20(rows), tot), "< 20"),
     Line("pct", pct(btw20_40(rows), tot), "20 to 40"),
     Line("pct", pct(btw40_60(rows), tot), "40 to 60"),
     Line("pct", pct(gt60(rows), tot), "> 60") >>

----------------------------------------------------------------------------
(* The import: importCsvFile and insertBatch *)

Op(op, ok, rows) == [op |-> op, ok |-> ok, rows |-> rows]

\* (mutant) a batch is sent only once it holds more than BATCH_SIZE documents
BatchFullOffByOne(b, size) == Len(b) > size

\* batch.length >= BATCH_SIZE
BatchFull(b, size) == Len(b) >= size

\* (mutant) a mapping error is not caught in the loop and reaches the catch block
OnMapErrorAbort == "catch"

\* a mapping error is caught inside the loop, which continues with the next record
OnMapError == "loop"

\* (mutant) the report is run without committing first
AfterLoadNoCommit == "count"

\* once every batch is sent the transaction is committed, and the report follows
AfterLoad == "commit"

\* (mutant) a rejected insert is swallowed and the loop goes on
AfterInsertSwallowed(ok, at) == IF at = "insert" THEN "loop" ELSE AfterLoad

\* a rejected insert leaves the try block for the catch block; a full batch
\* returns to the loop, the final one ends the load
AfterInsert(ok, at) ==
  IF ~ok THEN "catch" ELSE IF at = "insert" THEN "loop" ELSE AfterLoad

\* reading and parsing the file, before any connection is asked for
Parse ==
  /\ pc = "start"
  /\ LET r == parseCSVText(text) IN
     IF r.threw
     THEN /\ err' = "No headers found in CSV"
          /\ outcome' = "rejected"
          /\ pc' = "done"
          /\ log' = log \o <<Line("start", 0, ""), Line("parsing", 0, "")>>
          /\ UNCHANGED records
     ELSE /\ records' = r.rows
          /\ pc' = "connect"
          /\ log' = log \o <<Line("start", 0, ""), Line("parsing", 0, ""),
                             Line("parsed", Len(r.rows), "")>>
          /\ UNCHANGED <<err, outcome>>
  /\ UNCHANGED <<text, tok, par, rec, doc, batchSize, idx, batch, inserted,
                 client, db, total>>

\* await pool.connect(), outside the try block
Connect(ok) ==
  /\ pc = "connect"
  /\ IF ok
     THEN /\ pc' = "begin"
          /\ UNCHANGED <<err, outcome>>
     ELSE /\ err' = "connect failed"
          /\ outcome' = "rejected"
          /\ pc' = "done"
  /\ UNCHANGED <<text, tok, par, rec, doc, batchSize, records, idx, batch,
                 inserted, log, client, db, total>>

\* await client.query('BEGIN'), then the loop's locals
Begin(ok) ==
  /\ pc = "begin"
  /\ client' = Append(client, Op("BEGIN", ok, <<>>))
  /\ IF ok
     THEN /\ db' = [db EXCEPT !.txn = "open"]
          /\ pc' = "loop"
          /\ UNCHANGED err
     ELSE /\ err' = "BEGIN failed"
          /\ pc' = "catch"
          /\ UNCHANGED db
  /\ batch' = <<>>
  /\ inserted' = 0
  /\ idx' = 0
  /\ UNCHANGED <<text, tok, par, rec, doc, batchSize, records, log, total, outcome>>

\* one iteration of the for loop, up to the insert of a full batch
MapNext ==
  /\ pc = "loop"
  /\ idx < Len(records)
  /\ LET m == mapRecordToDb(records[idx + 1]) IN
     IF m.threw
     THEN /\ log' = Append(log, Line("skip", idx + 2, m.msg))
          /\ pc' = OnMapError
          /\ err' = IF OnMapError = "catch" THEN m.msg ELSE err
          /\ UNCHANGED batch
     ELSE /\ batch' = Append(batch, m.doc)
          /\ pc' = IF BatchFull(Append(batch, m.doc), batchSize) THEN "insert" ELSE "loop"
          /\ UNCHANGED <<log, err>>
  /\ idx' = idx + 1
  /\ UNCHANGED <<text, tok, par, rec, doc, batchSize, records, inserted, client,
                 db, total, outcome>>

\* the for loop ends: a partial batch is flushed, else the load is over
LoopExit ==
  /\ pc = "loop"
  /\ idx >= Len(records)
  /\ pc' = IF Len(batch) > 0 THEN "flush" ELSE AfterLoad
  /\ UNCHANGED <<text, tok, par, rec, doc, batchSize, records, idx, batch,
                 inserted, err, log, client, db, total, outcome>>

\* await insertBatch(client, batch), of a full batch or of the final one: one
\* multi-row INSERT, none for an empty batch; then the count and the progress line
InsertBatch(ok) ==
  /\ pc \in {"insert", "flush"}
  /\ IF Len(batch) = 0
     THEN /\ pc' = AfterInsert(TRUE, pc)
          /\ UNCHANGED <<client, db, err, inserted, log, batch>>
     ELSE /\ client' = Append(client, Op("INSERT", ok, batch))
          /\ pc' = AfterInsert(ok, pc)
          /\ IF ok
             THEN /\ db' = [db EXCEPT !.pending = @ \o batch]
                  /\ inserted' = inserted + Len(batch)
                  /\ log' = Append(log, Line(IF pc = "insert" THEN "inserted" ELSE "final",
                                             inserted + Len(batch), ""))
                  /\ batch' = <<>>
                  /\ UNCHANGED err
             ELSE /\ db' = [db EXCEPT !.txn = "failed"]
                  /\ err' = "INSERT failed"
                  /\ UNCHANGED <<inserted, log, batch>>
  /\ UNCHANGED <<text, tok, par, rec, doc, batchSize, records, idx, total, outcome>>

\* await client.query('COMMIT')
Commit(ok) ==
  /\ pc = "commit"
  /\ client' = Append(client, Op("COMMIT", ok, <<>>))
  /\ IF ok
     THEN /\ db' = [db EXCEPT !.rows = IF db.txn = "open" THEN @ \o db.pending ELSE @,
                              !.pending = <<>>, !.txn = "none"]
          /\ log' = Append(log, Line("committed", 0, ""))
          /\ pc' = "count"
          /\ UNCHANGED err
     ELSE /\ db' = [db EXCEPT !.txn = "failed"]
          /\ err' = "COMMIT failed"
          /\ pc' = "catch"
          /\ UNCHANGED log
  /\ UNCHANGED <<text, tok, par, rec, doc, batchSize, records, idx, batch,
                 inserted, total, outcome>>

\* printAgeDistribution: the COUNT(*) query and the test of total
CountRows(ok) ==
  /\ pc = "count"
  /\ client' = Append(client, Op("COUNT", ok, <<>>))
  /\ IF ok
     THEN /\ total' = Len(Visible(db))
          /\ IF Len(Visible(db)) = 0
             THEN /\ log' = Append(log, Line("nodata", 0, "No records in users table."))
                  /\ pc' = "release"
             ELSE /\ pc' = "buckets"
                  /\ UNCHANGED log
          /\ UNCHANGED err
     ELSE /\ err' = "COUNT failed"
          /\ pc' = "catch"
          /\ UNCHANGED <<log, total>>
  /\ UNCHANGED <<text, tok, par, rec, doc, batchSize, records, idx, batch,
                 inserted, db, outcome>>

\* printAgeDistribution: the bucket query and the five lines
BucketRows(ok) ==
  /\ pc = "buckets"
  /\ client' = Append(client, Op("BUCKETS", ok, <<>>))
  /\ IF ok
     THEN /\ log' = log \o ReportLines(Visible(db), total)
          /\ pc' = "release"
          /\ UNCHANGED err
     ELSE /\ err' = "BUCKETS failed"
          /\ pc' = "catch"
          /\ UNCHANGED log
  /\ UNCHANGED <<text, tok, par, rec, doc, batchSize, records, idx, batch,
                 inserted, db, total, outcome>>

\* the catch block: ROLLBACK, its own failure swallowed, and the error logged
Rollback(ok) ==
  /\ pc = "catch"
  /\ client' = Append(client, Op("ROLLBACK", ok, <<>>))
  /\ db' = IF ok THEN [db EXCEPT !.pending = <<>>, !.txn = "none"] ELSE db
  /\ log' = Append(log, Line("failed", 0, err))
  /\ pc' = "release"
  /\ UNCHANGED <<text, tok, par, rec, doc, batchSize, records, idx, batch,
                 inserted, err, total, outcome>>

\* the finally block: client.release(), then the promise settles
Release ==
  /\ pc = "release"
  /\ client' = Append(client, Op("release", TRUE, <<>>))
  /\ outcome' = IF err = "none" THEN "resolved" ELSE "rejected"
  /\ pc' = "done"
  /\ UNCHANGED <<text, tok, par, rec, doc, batchSize, records, idx, batch,
                 inserted, err, log, db, total>>

\* the files of the import specification: a header line, then data lines
HeaderLine == <<"n", "a", "m", "e", DOT, "f", "i", "r", "s", "t", "N", "a", "m", "e", COMMA, "n", "a", "m", "e", DOT, "l", "a", "s", "t", "N", "a", "m", "e", COMMA, "a", "g", "e", COMMA, "a", "d", "d", "r", "e", "s", "s", DOT, "c", "i", "t", "y">>
RowValid == <<"A", COMMA, "B", COMMA, "3", "0", COMMA, "X">>
RowNoFirstName == <<COMMA, "C", COMMA, "4", "0", COMMA, "Y">>
RowAgeNotNumber == <<"D", COMMA, "E", COMMA, "x", COMMA, "Z">>

RowTexts == {RowValid, RowNoFirstName, RowAgeNotNumber}

RECURSIVE JoinLines(_)
JoinLines(ls) == IF ls = <<>> THEN <<>> ELSE <<LF>> \o ls[1] \o JoinLines(Tail(ls))

\* the files of at most n data lines
FileTexts(n) ==
  {HeaderLine \o JoinLines(ls) : ls \in UNION {[1..k -> RowTexts] : k \in 0..n}}

\* files with no header line: empty, a lone byte order mark, a blank first line
NoHeaderTexts == {<<>>, <<BOM>>, <<LF>> \o HeaderLine \o <<LF>> \o RowValid}

\* files whose valid lines differ from one another, with and without a line
\* that does not map between them
RowSecond == <<"C", COMMA, "D", COMMA, "4", "0", COMMA, "Y">>
RowThird == <<"E", COMMA, "F", COMMA, "5", "0", COMMA>>
OrderTexts ==
  {HeaderLine \o JoinLines(<<RowValid, RowSecond, RowThird>>),
   HeaderLine \o JoinLines(<<RowThird, RowNoFirstName, RowSecond, RowValid>>)}

\* rows of public.users committed by earlier runs
PriorRow == [name |-> <<"P", " ", "Q">>, age |-> 65, address |-> NULL,
             additional_info |-> NULL]
PriorTables == {<<>>, <<PriorRow>>}

Init ==
  /\ text \in FileTexts(MaxRows) \cup NoHeaderTexts \cup OrderTexts
  /\ batchSize \in 0..MaxBatch
  /\ \E prior \in PriorTables :
       db = [txn |-> "none", pending |-> <<>>, rows |-> prior, prior |-> prior]
  /\ pc = "start"
  /\ tok = IdleTok
  /\ par = IdlePar
  /\ rec = <<>>
  /\ doc = IdleDoc
  /\ records = <<>>
  /\ idx = 0
  /\ batch = <<>>
  /\ inserted = 0
  /\ err = "none"
  /\ log = <<>>
  /\ client = <<>>
  /\ total = 0
  /\ outcome = "pending"

Next ==
  \/ Parse
  \/ \E ok \in BOOLEAN : Connect(ok)
  \/ \E ok \in BOOLEAN : Begin(ok)
  \/ MapNext
  \/ LoopExit
  \/ \E ok \in BOOLEAN : InsertBatch(ok)
  \/ \E ok \in BOOLEAN : Commit(ok)
  \/ \E ok \in BOOLEAN : CountRows(ok)
  \/ \E ok \in BOOLEAN : BucketRows(ok)
  \/ \E ok \in BOOLEAN : Rollback(ok)
  \/ Release

Spec == Init /\ [][Next]_vars

----------------------------------------------------------------------------
(* The report alone: printAgeDistribution on a table of users *)

UserRow(age) == [name |-> <<"P", " ", "Q">>, age |-> age, address |-> NULL,
                 additional_info |-> NULL]

\* the ages on both sides of every bucket limit, and a negative one
LimitAges == {0 - 1, 19, 20, 40, 41, 60, 61}

\* the tables of at most n rows with ages at the limits, the rows by age
RECURSIVE LimitTables(_)
LimitTables(n) ==
  IF n = 0 THEN {<<>>}
  ELSE LET shorter == LimitTables(n - 1) IN
       shorter \cup
       {Append(p[1], UserRow(p[2])) :
          p \in {q \in {u \in shorter : Len(u) = n - 1} \X LimitAges :
                   \A j \in 1..(n - 1) : q[1][j].age <= q[2]}}

\* a table of young rows aged 5 followed by old rows aged 65
AgeTable(young, old) ==
  [j \in 1..(young + old) |-> UserRow(IF j <= young THEN 5 ELSE 65)]

ExampleTable == <<UserRow(5), UserRow(25), UserRow(45), UserRow(65)>>

\* tables whose first percentage lies halfway between two integers
HalfwayTables == {AgeTable(1, 1), AgeTable(1, 7), AgeTable(5, 3), AgeTable(23, 17)}

ReportTables(n) == LimitTables(n) \cup {ExampleTable} \cup HalfwayTables

InitReport ==
  /\ \E table \in ReportTables(MaxTable) :
       db = [txn |-> "none", pending |-> <<>>, rows |-> table, prior |-> table]
  /\ pc = "count"
  /\ text = <<>>
  /\ tok = IdleTok
  /\ par = IdlePar
  /\ rec = <<>>
  /\ doc = IdleDoc
  /\ batchSize = 1
  /\ records = <<>>
  /\ idx = 0
  /\ batch = <<>>
  /\ inserted = 0
  /\ err = "none"
  /\ log = <<>>
  /\ client = <<>>
  /\ total = 0
  /\ outcome = "pending"

NextReport ==
  \/ \E ok \in BOOLEAN : CountRows(ok)
  \/ \E ok \in BOOLEAN : BucketRows(ok)

SpecReport == InitReport /\ [][NextReport]_vars

----------------------------------------------------------------------------
(* Vocabulary of the properties *)

\* the operations of the given kind issued on the client so far
OpsOf(kind) == {n \in 1..Len(client) : client[n].op = kind}
Succeeded(kind) == \E n \in OpsOf(kind) : client[n].ok
Rejected(kind) == \E n \in OpsOf(kind) : ~client[n].ok

\* the documents of the records that map, in file order
RECURSIVE ValidDocs(_)
ValidDocs(rs) ==
  IF rs = <<>> THEN <<>>
  ELSE LET m == mapRecordToDb(rs[1]) IN
       (IF m.threw THEN <<>> ELSE <<m.doc>>) \o ValidDocs(Tail(rs))

\* the rows carried by the INSERT statements issued so far
RECURSIVE RowsSent(_)
RowsSent(ops) ==
  IF ops = <<>> THEN 0
  ELSE (IF ops[1].op = "INSERT" THEN Len(ops[1].rows) ELSE 0) + RowsSent(Tail(ops))

\* ceil(n / b) for b > 0
Ceil(n, b) == (n + b - 1) \div b

----------------------------------------------------------------------------
(* C1 *)

\* this run has left no row in public.users
NothingCommitted == db.rows = db.prior

\* C1: once the INSERT of any batch is rejected, COMMIT is never issued, no row
\* of the run is committed (the rows of the earlier batches included), and the
\* run ends having issued ROLLBACK and rejecting with the insert's error.
C1_Atomicity ==
  Rejected("INSERT") =>
    /\ OpsOf("COMMIT") = {}
    /\ NothingCommitted
    /\ pc \in {"catch", "release", "done"}
    /\ err = "INSERT failed"
    /\ pc \in {"release", "done"} => OpsOf("ROLLBACK") # {}
    /\ pc = "done" => outcome = "rejected"

\* a run whose second batch is rejected after its first was accepted has ended
C1_Witness ==
  /\ pc = "done"
  /\ \E n, m \in OpsOf("INSERT") : n < m /\ client[n].ok /\ ~client[m].ok

----------------------------------------------------------------------------
(* C2 *)

\* C2: with a positive batch size B and N records that map, a run that reaches
\* its COMMIT has issued exactly ceil(N / B) INSERT statements carrying N rows
\* in all, and the committed rows of the run are the N valid documents.
C2_LoaderCount ==
  (batchSize > 0 /\ Succeeded("COMMIT")) =>
    LET N == Len(ValidDocs(records)) IN
    /\ Cardinality(OpsOf("INSERT")) = Ceil(N, batchSize)
    /\ RowsSent(client) = N
    /\ db.rows = db.prior \o ValidDocs(records)

\* three valid documents were committed in batches of two: a full and a partial one
C2_Witness ==
  /\ Succeeded("COMMIT")
  /\ batchSize = 2
  /\ Len(ValidDocs(records)) = 3
  /\ Cardinality(OpsOf("INSERT")) = 2

----------------------------------------------------------------------------
(* C3 *)

\* the scenario of the specification: a valid row, then a row with no first name
ScenarioText == HeaderLine \o <<LF>> \o RowValid \o <<LF>> \o RowNoFirstName

ScenarioRow ==
  [name |-> <<"A", " ", "B">>, age |-> 30,
   address |-> Obj(<<[k |-> <<"c", "i", "t", "y">>, v |-> Scalar(<<"X">>)]>>),
   additional_info |-> NULL]

\* the records the loop has gone through that do not map
SkippedUpTo(n) == {i \in 0..(n - 1) : mapRecordToDb(records[i + 1]).threw}

\* no statement was rejected so far
NoQueryRejected == \A n \in 1..Len(client) : client[n].ok

\* C3: a record that fails to map is never put in a batch, is logged as row
\* i + 2 with the reason, triggers no ROLLBACK, and does not keep the valid
\* records from being inserted and committed; the scenario file persists
\* exactly its one valid row.
C3_SkipRecovered ==
  /\ pc \in {"loop", "insert", "flush", "commit"} =>
       db.pending \o batch = ValidDocs(SubSeq(records, 1, idx))
  /\ \A i \in SkippedUpTo(idx) :
       \E n \in 1..Len(log) :
         log[n] = Line("skip", i + 2, mapRecordToDb(records[i + 1]).msg)
  /\ Cardinality({n \in 1..Len(log) : log[n].kind = "skip"}) = Cardinality(SkippedUpTo(idx))
  /\ (NoQueryRejected /\ client # <<>>) => OpsOf("ROLLBACK") = {} /\ err = "none"
  /\ Succeeded("COMMIT") => db.rows = db.prior \o ValidDocs(records)
  /\ (NoQueryRejected /\ pc = "done" /\ client # <<>>) =>
       outcome = "resolved" /\ Succeeded("COMMIT")
  /\ (text = ScenarioText /\ Succeeded("COMMIT")) =>
       /\ db.rows = db.prior \o <<ScenarioRow>>
       /\ \E n \in 1..Len(log) : log[n] = Line("skip", 3, "Mandatory fields missing")

\* the scenario file was imported to the end, its second row skipped
C3_Witness ==
  /\ text = ScenarioText
  /\ pc = "done"
  /\ outcome = "resolved"
  /\ \E n \in 1..Len(log) : log[n].kind = "skip"

----------------------------------------------------------------------------
(* C4 *)

\* s is a base-10 integer: an optional sign, then decimal digits and no more
ValidIntText(s) ==
  LET body == IF s # <<>> /\ s[1] \in {"+", "-"} THEN Tail(s) ELSE s IN
  body # <<>> /\ \A n \in 1..Len(body) : body[n] \in Digits

\* the age text of rec as the mapper reads it
AgeText == trim(Lookup(rec, KeyAge))

\* C4: mapRecordToDb fails whenever the trimmed age text is not a base-10
\* integer, so that every Document it returns has an age read from decimal
\* digits only.
C4_AgeValid == (doc.msg # "idle" /\ ~ValidIntText(AgeText)) => doc.threw

----------------------------------------------------------------------------
(* C5 *)

\* rec has no value for the key, or one that is empty once trimmed
Blank(key) ==
  ~HasKey(rec, key) \/ \A n \in 1..Len(Get(rec, key)) : Get(rec, key)[n] \in WhiteSpace

\* C5: a record whose first name, last name or age is absent or blank yields no
\* Document; any Document returned is named by the trimmed first name, one
\* space and the trimmed last name, and that name is not empty.
C5_Mandatory ==
  doc.msg # "idle" =>
    /\ (Blank(KeyFirstName) \/ Blank(KeyLastName) \/ Blank(KeyAge)) =>
         doc.threw /\ doc.doc = NoDoc /\ doc.msg = "Mandatory fields missing"
    /\ ~doc.threw =>
         /\ doc.doc.name = trim(Get(rec, KeyFirstName)) \o <<" ">> \o trim(Get(rec, KeyLastName))
         /\ doc.doc.name # <<>>
         /\ doc.doc.name[1] \notin WhiteSpace
         /\ doc.doc.name[Len(doc.doc.name)] \notin WhiteSpace

\* a Document was returned for a record whose first name had to be trimmed
C5_Witness ==
  /\ doc.msg # "idle"
  /\ ~doc.threw
  /\ HasKey(rec, KeyFirstName)
  /\ Get(rec, KeyFirstName) = <<" ", "A", " ">>
  /\ doc.doc.name = <<"A", " ", "B">>

----------------------------------------------------------------------------
(* C6 *)

\* the text without its byte order mark
StripBom(t) == IF Len(t) > 0 /\ t[1] = BOM THEN Tail(t) ELSE t

\* the header line is absent or empty
HeaderLineEmpty(t) == StripBom(t) = <<>> \/ StripBom(t)[1] \in {LF, CR}

\* C6: a file whose header line is empty or absent makes the import fail in
\* parseCSVText, before the connection is acquired: nothing is issued on a
\* client and no row is processed.
C6_HeaderError ==
  (pc # "start" /\ HeaderLineEmpty(text)) =>
    /\ pc = "done"
    /\ outcome = "rejected"
    /\ err = "No headers found in CSV"
    /\ client = <<>>

----------------------------------------------------------------------------
(* C7 *)

\* the lines of a text: a line ends at \r\n, \r or \n; the last element is
\* what follows the last line break
RECURSIVE LinesFrom(_, _)
LinesFrom(t, acc) ==
  IF t = <<>> THEN <<acc>>
  ELSE IF t[1] = CR /\ Len(t) >= 2 /\ t[2] = LF
  THEN <<acc>> \o LinesFrom(SubSeq(t, 3, Len(t)), <<>>)
  ELSE IF t[1] \in {CR, LF} THEN <<acc>> \o LinesFrom(Tail(t), <<>>)
  ELSE LinesFrom(Tail(t), Append(acc, t[1]))

RECURSIVE DropTrailingEmpty(_)
DropTrailingEmpty(ls) ==
  IF ls # <<>> /\ ls[Len(ls)] = <<>>
  THEN DropTrailingEmpty(SubSeq(ls, 1, Len(ls) - 1))
  ELSE ls

\* the lines of the file, its fully-empty trailing lines not counted
FileLines(t) == DropTrailingEmpty(LinesFrom(StripBom(t), <<>>))

NoQuotes(t) == \A n \in 1..Len(t) : t[n] # QUOTE

\* C7: for a text without quotes whose header line is not empty, the number of
\* records is the number of lines minus one, trailing empty lines not counted.
C7_RecordCount ==
  (par.pc = "done" /\ NoQuotes(text) /\ ~HeaderLineEmpty(text)) =>
    Len(par.rows) = Len(FileLines(text)) - 1

----------------------------------------------------------------------------
(* C8 *)

\* a loop iteration taken in quoted state: a comma or a line break is appended
\* to the field and ends nothing; a doubled quote appends one quote
QuotedStep ==
  (PIter /\ tok.inQuotes) =>
    LET ch == text[tok.i + 1] IN
    /\ ch \in {COMMA, CR, LF} =>
         /\ tok'.cur = Append(tok.cur, ch)
         /\ tok'.fields = tok.fields
         /\ tok'.inQuotes /\ ~tok'.brk
         /\ tok'.i = tok.i + 1
    /\ (ch = QUOTE /\ tok.i + 1 < Len(text) /\ text[tok.i + 2] = QUOTE) =>
         /\ tok'.cur = Append(tok.cur, QUOTE)
         /\ tok'.fields = tok.fields
         /\ tok'.inQuotes /\ ~tok'.brk
         /\ tok'.i = tok.i + 2

\* the two lines of the specification, once read
QuotedExamples ==
  /\ (text = QuotedLine /\ par.pc = "headerRead") =>
       tok.fields = << <<"a">>, <<"b", QUOTE, "c">>, <<"d">> >>
  /\ (text = QuotedBreak /\ par.pc = "rowRead") =>
       tok.fields = << <<"a", LF, "a">>, <<"a">> >>
  /\ (text = QuotedBreak /\ par.pc = "done") => Len(par.rows) = 1

\* C8: in quoted state a comma, \r or \n is appended to the current field and
\* ends neither the field nor the record, and a doubled quote appends one
\* literal quote; a,"b""c",d gives three fields, the second b"c, and a quoted
\* field holding a line break stays one field of one record.
C8_Quoting == [][QuotedStep]_vars /\ []QuotedExamples

\* the line with the quoted line break was read to the end as one record
C8_Witness ==
  /\ text = QuotedBreak
  /\ par.pc = "done"
  /\ Len(par.rows) = 1
  /\ par.rows[1][1].v = <<"a", LF, "a">>

----------------------------------------------------------------------------
(* C9 *)

\* C9: a run that acquired the client ends having released it exactly once,
\* as its last operation, with the transaction closed by a COMMIT or a
\* ROLLBACK that succeeded.
C9_ScopedConnection ==
  (pc = "done" /\ client # <<>>) =>
    /\ Cardinality(OpsOf("release")) = 1
    /\ client[Len(client)].op = "release"
    /\ db.txn = "none"
    /\ Succeeded("BEGIN") => Succeeded("COMMIT") \/ Succeeded("ROLLBACK")

----------------------------------------------------------------------------
(* C10 *)

\* a query of printAgeDistribution was rejected
ReportRejected == Rejected("COUNT") \/ Rejected("BUCKETS")

\* C10: a rejected report query comes after a successful COMMIT, and from then
\* on, through the ROLLBACK of the catch block and the release, every row of
\* the run stays committed.
C10_ReportFailureKeepsData ==
  ReportRejected =>
    /\ Succeeded("COMMIT")
    /\ db.rows = db.prior \o ValidDocs(records)
    /\ db.pending = <<>>

\* a run that committed rows, then had its report rejected and issued a
\* successful ROLLBACK, has ended
C10_Witness ==
  /\ pc = "done"
  /\ ReportRejected
  /\ Succeeded("ROLLBACK")
  /\ Len(db.rows) > Len(db.prior)

----------------------------------------------------------------------------
(* C11 *)

\* mapRecordToDb returned a Document for rec
Returned == doc.msg # "idle" /\ ~doc.threw

\* the key is one of the three mandatory ones
IsMandatoryKey(k) == k = KeyFirstName \/ k = KeyLastName \/ k = KeyAge

HasAddressKey(r) == \E n \in 1..Len(r) : StartsWithAddress(r[n].k)

HasOtherKey(r) ==
  \E n \in 1..Len(r) : ~IsMandatoryKey(r[n].k) /\ ~StartsWithAddress(r[n].k)

\* C11: in every returned Document address is null exactly when the record has
\* no key starting with 'address.', and additional_info is null exactly when the
\* record has no key besides the mandatory ones and the 'address.' ones
C11_OptionalBuckets ==
  Returned =>
    /\ (doc.doc.address = NULL) <=> ~HasAddressKey(rec)
    /\ (doc.doc.additional_info = NULL) <=> ~HasOtherKey(rec)

----------------------------------------------------------------------------
(* C12 *)

\* the bucket query was answered
BucketsAnswered == client # <<>> /\ client[Len(client)] = Op("BUCKETS", TRUE, <<>>)

\* the buckets an age is counted in
BucketsOf(age) ==
  {b \in {"lt20", "btw20_40", "btw40_60", "gt60"} :
     \/ b = "lt20" /\ InLt20(age)
     \/ b = "btw20_40" /\ InBtw20_40(age)
     \/ b = "btw40_60" /\ InBtw40_60(age)
     \/ b = "gt60" /\ InGt60(age)}

\* C12: once the bucket query is answered every row of the table is counted in
\* exactly one bucket, a negative age in the first, and the four counts add up
\* to the total
C12_BucketsPartition ==
  BucketsAnswered =>
    LET rows == Visible(db) IN
    /\ \A n \in 1..Len(rows) :
         /\ Cardinality(BucketsOf(rows[n].age)) = 1
         /\ rows[n].age < 0 => BucketsOf(rows[n].age) = {"lt20"}
    /\ lt20(rows) + btw20_40(rows) + btw40_60(rows) + gt60(rows) = Len(rows)
    /\ total = Len(rows)

C12_Witness ==
  /\ BucketsAnswered
  /\ \E n \in 1..Len(db.rows) : db.rows[n].age < 0
  /\ \E n \in 1..Len(db.rows) : db.rows[n].age = 20
  /\ \E n \in 1..Len(db.rows) : db.rows[n].age = 40

----------------------------------------------------------------------------
(* C13 *)

\* n * 100 / tot rounded to the nearest integer, a half upwards, in integers
HalfUp(n, tot) == (200 * n + tot) \div (2 * tot)

\* the four lines a table should give, in their order
ExpectedLines(rows) ==
  << Line("pct", HalfUp(lt20(rows), Len(rows)), "< 20"),
     Line("pct", HalfUp(btw20_40(rows), Len(rows)), "20 to 40"),
     Line("pct", HalfUp(btw40_60(rows), Len(rows)), "40 to 60"),
     Line("pct", HalfUp(gt60(rows), Len(rows)), "> 60") >>

\* C13: on an empty table the report says there are no records and sends no
\* bucket query; otherwise it prints four percentages in the order < 20, 20 to
\* 40, 40 to 60, > 60, each the bucket count times 100 over the total rounded to
\* the nearest integer, a half upwards, and within 0..100; ages 5, 25, 45, 65
\* give 25, 25, 25, 25
C13_ReportOutput ==
  LET rows == Visible(db) IN
  /\ (Succeeded("COUNT") /\ Len(rows) = 0) =>
        /\ log = <<Line("nodata", 0, "No records in users table.")>>
        /\ OpsOf("BUCKETS") = {}
  /\ BucketsAnswered =>
        /\ Len(log) = 5
        /\ SubSeq(log, 2, 5) = ExpectedLines(rows)
        /\ \A j \in 2..5 : log[j].n \in 0..100
  /\ (BucketsAnswered /\ rows = ExampleTable) =>
        \A j \in 2..5 : log[j].n = 25

----------------------------------------------------------------------------
(* C14 *)

\* the loop of parseCSVText stores the record of the line just read
StoresRecord == par.pc = "rowRead" /\ Len(par'.rows) = Len(par.rows) + 1

\* the record stored has the header cells as its keys, each once, and under
\* each key the trimmed field of the last column with that header, '' where the
\* line has no such field
RecordShaped(r, headers, fs) ==
  /\ {r[n].k : n \in 1..Len(r)} = {headers[k] : k \in 1..Len(headers)}
  /\ \A m, n \in 1..Len(r) : r[m].k = r[n].k => m = n
  /\ \A k \in 1..Len(headers) :
       (\A j \in (k + 1)..Len(headers) : headers[j] # headers[k]) =>
         /\ HasKey(r, headers[k])
         /\ Get(r, headers[k]) = IF k <= Len(fs) THEN trim(fs[k]) ELSE <<>>

\* C14: every record has exactly the trimmed header cells as its keys (of a
\* header cell that occurs twice the last column's value is kept), a short line
\* is padded with '', fields beyond the header are dropped, every value is trimmed
C14_RecordShape ==
  [][StoresRecord => RecordShaped(par'.rows[Len(par'.rows)], par.headers, tok.fields)]_vars

----------------------------------------------------------------------------
(* C15 *)

\* the operations on the connection before the n-th
Before(n) == 1..(n - 1)

\* C15: on the connection BEGIN is the first statement; every INSERT comes
\* after BEGIN and before any COMMIT or ROLLBACK; the report queries come only
\* after a COMMIT that succeeded; release is the last operation
C15_ProtocolOrder ==
  /\ client # <<>> => client[1].op = "BEGIN"
  /\ \A n \in OpsOf("BEGIN") : n = 1
  /\ \A n \in OpsOf("INSERT") :
       /\ \E m \in Before(n) : client[m].op = "BEGIN"
       /\ \A m \in Before(n) : client[m].op \notin {"COMMIT", "ROLLBACK"}
  /\ \A n \in OpsOf("COUNT") \cup OpsOf("BUCKETS") :
       \E m \in Before(n) : client[m] = Op("COMMIT", TRUE, <<>>)
  /\ \A n \in OpsOf("release") : n = Len(client)

\* a run with two INSERTs, the COMMIT, both report queries and the release
C15_Witness ==
  /\ outcome = "resolved"
  /\ Cardinality(OpsOf("INSERT")) = 2
  /\ Succeeded("COMMIT")
  /\ Succeeded("BUCKETS")
  /\ client[Len(client)].op = "release"

----------------------------------------------------------------------------
(* C16 *)

\* a header a and a last line made of the quote pair, no line break after it
QuotePairText == <<"a", LF, QUOTE, QUOTE>>

\* the line just read is dropped as a phantom row
DropsRecord == par.pc = "rowRead" /\ IsPhantom(text, tok)

\* C16: a final record is dropped only when the call that read it was given no
\* character; a last line made of the quote pair alone gives one record with
\* the empty string; and the text followed by one more line break gives the
\* same records
C16_PhantomDiscard ==
  /\ DropsRecord => tok.i = Len(text) /\ par.rows # <<>>
  /\ (par.pc = "done" /\ text = QuotePairText) =>
        par.rows = << <<[k |-> <<"a">>, v |-> <<>>]>> >>
  /\ par.pc = "done" =>
        parseCSVText(Append(text, LF)) = [threw |-> FALSE, rows |-> par.rows]

----------------------------------------------------------------------------
(* C17 *)

\* the rows of the INSERT statements, in the order they were sent
RECURSIVE SentRows(_)
SentRows(ops) ==
  IF ops = <<>> THEN <<>>
  ELSE (IF ops[1].op = "INSERT" THEN ops[1].rows ELSE <<>>) \o SentRows(Tail(ops))

\* C17: with a positive batch size B every INSERT carries between 1 and B
\* rows, every INSERT but the last one exactly B; the pending batch never holds
\* more than B documents; and the rows sent, followed by the pending ones, are
\* the documents of the valid records read so far, in file order, each once
C17_BatchShape ==
  batchSize > 0 =>
    /\ \A n \in OpsOf("INSERT") :
         /\ Len(client[n].rows) \in 1..batchSize
         /\ (\E m \in OpsOf("INSERT") : m > n) => Len(client[n].rows) = batchSize
    /\ Len(batch) <= batchSize
    /\ LET docs == ValidDocs(SubSeq(records, 1, idx)) IN
       IF Rejected("INSERT") THEN SentRows(client) = docs
       ELSE SentRows(client) \o batch = docs
    /\ Succeeded("COMMIT") => SentRows(client) = ValidDocs(records)

\* three documents that differ, with a record that does not map between them,
\* were sent in batches of two and committed
C17_Witness ==
  /\ Succeeded("COMMIT")
  /\ batchSize = 2
  /\ Len(records) = 4
  /\ Len(ValidDocs(records)) = 3
  /\ \A m, n \in 1..3 : ValidDocs(records)[m] = ValidDocs(records)[n] => m = n
  /\ Cardinality(OpsOf("INSERT")) = 2

----------------------------------------------------------------------------
(* C18 *)

\* the calls of setNested on one builder, in key order: the path and the value
RECURSIVE AddressCalls(_)
AddressCalls(r) ==
  IF r = <<>> THEN <<>>
  ELSE (IF StartsWithAddress(r[1].k)
        THEN <<[path |-> SubSeq(r[1].k, Len(AddressPrefix) + 1, Len(r[1].k)),
                v |-> r[1].v]>>
        ELSE <<>>) \o AddressCalls(Tail(r))

RECURSIVE OtherCalls(_)
OtherCalls(r) ==
  IF r = <<>> THEN <<>>
  ELSE (IF ~IsMandatoryKey(r[1].k) /\ ~StartsWithAddress(r[1].k)
        THEN <<[path |-> r[1].k, v |-> r[1].v]>>
        ELSE <<>>) \o OtherCalls(Tail(r))

\* the value at the path from part n on, NULL where there is none
RECURSIVE PathValue(_, _, _)
PathValue(entries, parts, n) ==
  IF ~HasKey(entries, parts[n]) THEN NULL
  ELSE IF n = Len(parts) THEN Get(entries, parts[n])
  ELSE IF Get(entries, parts[n]).tag = "o"
  THEN PathValue(Get(entries, parts[n]).ent, parts, n + 1)
  ELSE NULL

IsPrefix(p, q) == Len(p) <= Len(q) /\ SubSeq(q, 1, Len(p)) = p

\* two paths collide when one leads through the other
Collide(p, q) == IsPrefix(Split(p), Split(q)) \/ IsPrefix(Split(q), Split(p))

\* the path leads through __proto__, so its value is read from the prototype
ThroughProto(path) ==
  \E j \in 1..(Len(Split(path)) - 1) : Split(path)[j] = ProtoKey

\* every call that no later call collides with has left its value at its path
Placed(calls, entries) ==
  \A j \in 1..Len(calls) :
    (/\ ~ThroughProto(calls[j].path)
     /\ \A m \in (j + 1)..Len(calls) : ~Collide(calls[j].path, calls[m].path))
    => PathValue(entries, Split(calls[j].path), 1) = Scalar(calls[j].v)

\* C18: setNested leaves the value at its path, creating the mappings on the
\* way; a scalar on the way is replaced by a mapping and a mapping at the leaf
\* by the scalar, so of colliding keys the last in key order wins and no error
\* is raised (a then a.b gives {a: {b: ..}}, a.b then a gives {a: scalar});
\* what lies at unrelated paths is left as it was
C18_NestedPlacement ==
  doc.msg # "idle" =>
    /\ ~doc.threw
    /\ Placed(AddressCalls(rec), doc.doc.address.ent)
    /\ Placed(OtherCalls(rec), doc.doc.additional_info.ent)
    /\ \A v, w \in ExtraVals :
         /\ OtherCalls(rec) = <<[path |-> KeyA, v |-> v], [path |-> KeyAB, v |-> w]>>
              => doc.doc.additional_info =
                   Obj(<<[k |-> KeyA, v |-> Obj(<<[k |-> <<"b">>, v |-> Scalar(w)]>>)]>>)
         /\ OtherCalls(rec) = <<[path |-> KeyAB, v |-> v], [path |-> KeyA, v |-> w]>>
              => doc.doc.additional_info = Obj(<<[k |-> KeyA, v |-> Scalar(w)]>>)

----------------------------------------------------------------------------
(* C19 *)

\* the catch block has logged 'Import failed, rolled back. Error: ...'
LoggedRolledBack == \E n \in 1..Len(log) : log[n].kind = "failed"

\* C19: a run that rejects and has logged that it rolled back has left no row
\* committed; rows of a run that has ended are committed only if it resolved
C19_OutcomeMatchesData ==
  /\ (outcome = "rejected" /\ LoggedRolledBack) => NothingCommitted
  /\ (pc = "done" /\ ~NothingCommitted) => outcome = "resolved"

----------------------------------------------------------------------------
(* C20 *)

\* readLineAsFields is about to run an iteration of its loop
IterRunning == par.pc \in {"header", "row"} /\ ReadRunning(text, tok)

\* readLineAsFields is entered with the cursor before the end
CallBeforeEnd ==
  par.pc \in {"header", "row"} /\ tok = TokInit(tok.i) /\ tok.i < Len(text)

\* readLineAsFields has returned with its last field still inside quotes
ReturnedInQuotes == par.pc \in {"headerRead", "rowRead"} /\ tok.inQuotes

\* every iteration and every call made before the end move the cursor
\* forward, never beyond the end of the text
CursorAdvances ==
  /\ tok.i <= Len(text)
  /\ IterRunning => ReadIter(text, tok).i > tok.i /\ ReadIter(text, tok).i <= Len(text)
  /\ CallBeforeEnd => readLineAsFields(text, tok.i).i > tok.i

\* C20 as claimed: the parser terminates, the cursor moving forward with every
\* iteration and every call made before the end, and a field left inside
\* quotes at the end of input is returned as the last field
C20_UnterminatedReturned ==
  /\ CursorAdvances
  /\ ReturnedInQuotes =>
        tok.fields # <<>> /\ tok.fields[Len(tok.fields)] = tok.cur

\* C20: the parser terminates, the cursor moving forward with every iteration
\* and every call made before the end; a field left inside quotes at the end
\* of input is returned as the last field, unless it is empty and alone on its
\* line, and then the call returns no field
C20_ParserTerminates ==
  /\ CursorAdvances
  /\ ReturnedInQuotes =>
        IF tok.fields = <<>> THEN tok.cur = <<>>
        ELSE tok.fields[Len(tok.fields)] = tok.cur

\* a data line with a \r inside a quote that is never closed has been read to
\* the end of the input and its field returned
C20_Witness ==
  /\ par.pc = "rowRead"
  /\ tok.inQuotes
  /\ tok.i = Len(text)
  /\ tok.fields = <<tok.cur>>
  /\ \E j \in 1..Len(tok.cur) : tok.cur[j] = CR

====
